---- MODULE Spec2Model ----
(***************************************************************************)
(* Job orchestration of the QuantumDock dashboard, as implemented by the    *)
(* simulated hooks (use-api, "SIMULATED VERSION"): the module-level job     *)
(* store mockJobs / jobCounter, the useDocking handlers that act on it      *)
(* (createDockingJob, cancelJob, deleteJob, getJobResults, loadJobs,        *)
(* pollJobStatus), the interval and the 30 s cleanup timer each             *)
(* pollJobStatus call creates, and the React state (jobs, activeJob) the    *)
(* handlers write.                                                          *)
(*                                                                          *)
(* Progress is kept in hundredths of a percent (the code rounds to two      *)
(* decimals), time in abstract clock readings.                              *)
(***************************************************************************)
EXTENDS Integers, Sequences, FiniteSets, Bags, TLC

VARIABLES
    mockJobs,     \* the store: the module-level array of DockingJob objects
    jobCounter,   \* the module-level id counter
    jobs,         \* React state of useDocking: the displayed job list
    activeJob,    \* React state of useDocking: the active job, or null
    pollers,      \* the intervals pollJobStatus calls created that are not yet cleared
    now,          \* the wall clock (what Date.now() / new Date() return)
    response,     \* what the last handler call returned to its caller
    backend,      \* the job service the API client talks to: its job records
    calls,        \* the execute() calls of useDocking's useAPI that have not settled
    isLoading,    \* React state of that useAPI
    loops,        \* the api.pollJobStatus calls made so far
    gets,         \* the status requests of those calls that are in flight
    currentStep   \* React state of the Dashboard

\* The state the hooks of the API client and the Dashboard add to useDocking's.
clientVars == <<backend, calls, isLoading, loops, gets, currentStep>>

\* The state only the simulated hooks use.
simulatedVars == <<mockJobs, jobCounter, pollers, now, response>>

vars == <<mockJobs, jobCounter, jobs, activeJob, pollers, now, response,
          backend, calls, isLoading, loops, gets, currentStep>>

----------------------------------------------------------------------------
(* Bounds of the model *)

MaxJobs == 1        \* submissions made in one behaviour
MaxPolls == 1       \* intervals alive at one time
MaxClock == 1       \* last clock reading

(* Bounds of the admission specification SpecAdmit *)
MaxAdmitJobs == 6   \* submissions
MaxAdmitPolls == 6  \* intervals alive at one time

(* Bounds of the timer specification SpecTimeout *)
MaxTimedJobs == 1   \* submissions
MaxTimedPolls == 1  \* intervals alive at one time

(* Bounds of the submission specification SpecSubmit *)
MaxSubmitJobs == 2  \* submissions
MaxSubmitPolls == 1 \* intervals alive at one time
MaxSubmitClock == 2 \* last clock reading

(* Bounds of the shared-job specification SpecShared *)
MaxSharedJobs == 1  \* submissions
MaxSharedPolls == 2 \* intervals alive at one time

(* Bounds of the repeated-polling specification SpecRepoll *)
MaxRepollJobs == 1  \* submissions
MaxRepollPolls == 2 \* intervals alive at one time
MaxRepollClock == 2 \* last clock reading

(* Bounds of the two-job specification SpecFrame *)
MaxFrameJobs == 2   \* submissions
MaxFramePolls == 2  \* intervals alive at one time

(* Bounds of the API client specification SpecClient *)
MaxClientJobs == 1  \* submissions
MaxClientCalls == 2 \* execute() calls a user has in flight at one time

----------------------------------------------------------------------------
(* Program constants *)

IntervalMs == 1000              \* setInterval(..., 1000)
CleanupMs == 30000              \* setTimeout(..., 30000)
MAX_CONCURRENT_JOBS == 5        \* README, Configuration
CompleteAt == 9000              \* currentJob.progress >= 90
ProgressCap == 9900             \* Math.min(..., 99)
ProgressDone == 10000           \* currentJob.progress = 100
MaxRandomStep == 5000           \* Math.random() * 50, after rounding to 2 decimals

DefaultExhaustiveness == 8      \* Dashboard, dockingParams
DefaultNumModes == 9            \* Dashboard, dockingParams

NoTime == 0                     \* an optional timestamp that is not set

\* Interval firings that fit in the cleanup delay.
TicksInBudget == CleanupMs \div IntervalMs

\* The rounded values of Math.random() * 50 the model draws.  BriskSteps: the
\* smallest advance that completes a job in two firings, and the largest
\* advance.  SlowSteps adds the firing that advances nothing, with which an
\* interval can live until its cleanup timer.
BriskSteps == {4500, MaxRandomStep}
SlowSteps == {0} \cup BriskSteps

Statuses == {"pending", "running", "completed", "failed", "cancelled"}
Terminal == {"completed", "failed", "cancelled"}

UnknownId == <<0, 0>>           \* an id no job ever has (jobCounter starts at 1)

\* The docking parameters of a request (of the AnalysisRequest, the fields the
\* backend validates).  The dashboard always sends its initial dockingParams;
\* other callers of the hook may pass any numbers.
DefaultParameters ==
    [exhaustiveness |-> DefaultExhaustiveness, num_modes |-> DefaultNumModes]

DashboardRequests == {[parameters |-> DefaultParameters]}

Requests ==
    DashboardRequests \cup
    {[parameters |-> [DefaultParameters EXCEPT !.exhaustiveness = 0]],
     [parameters |-> [DefaultParameters EXCEPT !.num_modes = 0]]}

\* The single pose pollJobStatus records on completion.
CompletionResults == << [mode |-> 0, binding_affinity |-> -82] >>

\* The fixed payload getJobResults returns (poses; analysis omitted).
FixedPoses ==
    << [mode |-> 0, binding_affinity |-> -82],
       [mode |-> 1, binding_affinity |-> -79] >>

NullJob ==
    [job_id |-> UnknownId, parameters |-> DefaultParameters,
     status |-> "pending", progress |-> 0,
     created_at |-> NoTime, started_at |-> NoTime, completed_at |-> NoTime,
     results |-> <<>>, error_message |-> ""]

----------------------------------------------------------------------------
(* Helpers *)

Min(a, b) == IF a < b THEN a ELSE b

\* Clock readings possible at or after reading t (time never runs backwards):
\* a handler reads the clock at t, or one reading later.
Later(t) == {t} \cup {u \in {t + 1} : u <= MaxClock}

Ids == {mockJobs[i].job_id : i \in 1..Len(mockJobs)}

\* mockJobs.findIndex(j => j.job_id === jobId); 0 when absent.
FindIndex(store, jobId) ==
    IF \E i \in 1..Len(store) : store[i].job_id = jobId
    THEN CHOOSE i \in 1..Len(store) :
            /\ store[i].job_id = jobId
            /\ \A k \in 1..(i - 1) : store[k].job_id # jobId
    ELSE 0

FoundIn(store, jobId) == FindIndex(store, jobId) # 0
JobIn(store, jobId) == store[FindIndex(store, jobId)]

Found(jobId) == FoundIn(mockJobs, jobId)
Job(jobId) == JobIn(mockJobs, jobId)

RECURSIVE Filter(_, _)
Filter(s, status) ==
    IF s = <<>> THEN <<>>
    ELSE IF Head(s).status = status
         THEN <<Head(s)>> \o Filter(Tail(s), status)
         ELSE Filter(Tail(s), status)

\* splice(index, 1)
\* A splice that drops the rest of the array as well.
RemoveFrom(s, i) == SubSeq(s, 1, i - 1)

RemoveAt(s, i) == SubSeq(s, 1, i - 1) \o SubSeq(s, i + 1, Len(s))

(* React state holds either the store's own object (a reference: what it     *)
(* shows follows the store) or a copy made with { ...job }.                  *)
Ref(jobId) == [live |-> TRUE, id |-> jobId, copy |-> NullJob]
Copy(job) == [live |-> FALSE, id |-> job.job_id, copy |-> job]
NoActiveJob == [live |-> FALSE, id |-> UnknownId, copy |-> NullJob]

\* The references to the elements of a store array, in array order.
Refs(store) == [i \in 1..Len(store) |-> Ref(store[i].job_id)]

\* What a holder of entry e reads: the store's object, or its copy.
View(e) == IF e.live /\ Found(e.id) THEN Job(e.id) ELSE e.copy

\* What execute() hands back: the call's result, or null with the error set.
Reply(op, results) == [op |-> op, ok |-> TRUE, error |-> "", results |-> results]

----------------------------------------------------------------------------
Init ==
    /\ mockJobs = <<>>
    /\ jobCounter = 1
    /\ jobs = <<>>
    /\ activeJob = NoActiveJob
    /\ pollers = EmptyBag
    /\ now = 1
    /\ response = Reply("none", <<>>)
    /\ backend = [next |-> 1, status |-> <<>>]
    /\ calls = EmptyBag
    /\ isLoading = FALSE
    /\ loops = <<>>
    /\ gets = EmptyBag
    /\ currentStep = 1

----------------------------------------------------------------------------
(* loadJobs(status?): the list the handler fetches and puts in `jobs`. *)
LoadedJobs(store, status) ==
    IF status # "" THEN Refs(Filter(store, status)) ELSE Refs(store)

loadJobs(status) ==
    /\ jobs' = LoadedJobs(mockJobs, status)
    /\ response' = Reply("loadJobs", <<>>)
    /\ UNCHANGED <<mockJobs, jobCounter, activeJob, pollers, now>>
    /\ UNCHANGED clientVars

(* createDockingJob(request) *)
\* An id that leaves the counter out.
JobIdOfTime(t, counter) == <<t, 0>>

\* `job_${Date.now()}_${jobCounter++}`
JobId(t, counter) == <<t, counter>>

\* A record that is created already started.
NewJobStarted(jobId, request, t) ==
    [job_id |-> jobId, parameters |-> request.parameters,
     status |-> "running", progress |-> 0,
     created_at |-> t, started_at |-> t, completed_at |-> NoTime,
     results |-> <<>>, error_message |-> ""]

NewJob(jobId, request, t) ==
    [job_id |-> jobId, parameters |-> request.parameters,
     status |-> "pending", progress |-> 0,
     created_at |-> t, started_at |-> NoTime, completed_at |-> NoTime,
     results |-> <<>>, error_message |-> ""]

createDockingJob(request, maxJobs) ==
    /\ jobCounter <= maxJobs
    /\ \E t1 \in Later(now) : \E t2 \in Later(t1) :
        LET jobId == JobId(t1, jobCounter)
            newJob == NewJob(jobId, request, t2)
        IN  /\ now' = t2
            /\ jobCounter' = jobCounter + 1
            /\ mockJobs' = Append(mockJobs, newJob)
            /\ activeJob' = Ref(jobId)
            /\ jobs' = LoadedJobs(mockJobs', "")
            /\ response' = Reply("createDockingJob", <<>>)
    /\ UNCHANGED pollers
    /\ UNCHANGED clientVars

(* cancelJob(jobId): whatever the job's status is. *)
\* A cancellation that only withdraws jobs that have not started.
CancelledIfPending(job) ==
    IF job.status = "pending" THEN [job EXCEPT !.status = "cancelled"] ELSE job

Cancelled(job) == [job EXCEPT !.status = "cancelled"]

cancelJob(jobId) ==
    /\ mockJobs' =
         IF Found(jobId)
         THEN [mockJobs EXCEPT ![FindIndex(mockJobs, jobId)] = Cancelled(@)]
         ELSE mockJobs
    /\ jobs' = LoadedJobs(mockJobs', "")
    /\ response' = Reply("cancelJob", <<>>)
    /\ UNCHANGED <<jobCounter, activeJob, pollers, now>>
    /\ UNCHANGED clientVars

(* deleteJob(jobId): whatever the job's status is. *)
deleteJob(jobId) ==
    /\ mockJobs' =
         IF Found(jobId)
         THEN RemoveAt(mockJobs, FindIndex(mockJobs, jobId))
         ELSE mockJobs
    /\ jobs' = LoadedJobs(mockJobs', "")
    /\ activeJob' = IF activeJob.id = jobId THEN NoActiveJob ELSE activeJob
    /\ response' = Reply("deleteJob", <<>>)
    /\ UNCHANGED <<jobCounter, pollers, now>>
    /\ UNCHANGED clientVars

(* getJobResults(jobId): the payload does not depend on the store. *)
getJobResults(jobId) ==
    /\ response' = Reply("getJobResults", FixedPoses)
    /\ UNCHANGED <<mockJobs, jobCounter, jobs, activeJob, pollers, now>>
    /\ UNCHANGED clientVars

(* pollJobStatus(jobId): the synchronous part of the call. *)
\* A start condition that also restarts jobs that are no longer pending.
ShouldStartUnlessRunning(job) == job.status # "running"

ShouldStartUnlessDone(job) == job.status \in {"pending", "running"}

ShouldStart(job) == job.status = "pending"

Started(job, t) == [job EXCEPT !.status = "running", !.started_at = t]

\* The interval (and its cleanup timer) a call creates; ticks counts its firings.
NewPoller(jobId) == [job_id |-> jobId, ticks |-> 0]

pollJobStatus(jobId, maxPolls) ==
    /\ BagCardinality(pollers) < maxPolls
    /\ response' = Reply("pollJobStatus", <<>>)
    /\ IF ~Found(jobId)
       THEN UNCHANGED <<mockJobs, jobCounter, jobs, activeJob, pollers, now>>
       ELSE LET i == FindIndex(mockJobs, jobId) IN
            /\ IF ShouldStart(mockJobs[i])
               THEN \E t \in Later(now) :
                        /\ now' = t
                        /\ mockJobs' = [mockJobs EXCEPT ![i] = Started(@, t)]
                        /\ activeJob' = Copy(mockJobs'[i])
               ELSE UNCHANGED <<mockJobs, activeJob, now>>
            /\ pollers' = pollers (+) SetToBag({NewPoller(jobId)})
            /\ UNCHANGED <<jobCounter, jobs>>
    /\ UNCHANGED clientVars

(* One firing of the interval a pollJobStatus call created. *)
\* An interval guard that forgets the status check.
StillThere(jobId) == Found(jobId)

StillUnfinished(jobId) ==
    Found(jobId) /\ Job(jobId).status \notin {"completed", "failed"}

StillRunning(jobId) == Found(jobId) /\ Job(jobId).status = "running"

\* An advance that replaces the progress by the random draw.
Redrawn(progress, r) == Min(r, ProgressCap)

\* Math.round(Math.min(progress + Math.random() * 50, 99) * 100) / 100
Advanced(progress, r) == Min(progress + r, ProgressCap)

Completes(progress) == progress >= CompleteAt

\* A completion that leaves the progress where the last advance put it.
CompletedAsAdvanced(job, t) ==
    [job EXCEPT !.status = "completed",
                !.completed_at = t, !.results = CompletionResults]

Completed(job, t) ==
    [job EXCEPT !.progress = ProgressDone, !.status = "completed",
                !.completed_at = t, !.results = CompletionResults]

\* prevJobs.map(j => j.job_id === jobId ? { ...currentJob } : j)
MapJobs(prev, job) ==
    [k \in 1..Len(prev) |-> IF prev[k].id = job.job_id THEN Copy(job) ELSE prev[k]]

\* clearInterval(progressInterval)
ClearInterval(p) == pollers (-) SetToBag({p})

Refired(p) == ClearInterval(p) (+) SetToBag({[p EXCEPT !.ticks = @ + 1]})

Tick(p, steps) ==
    /\ BagIn(p, pollers)
    /\ p.ticks < TicksInBudget
    /\ IF ~StillRunning(p.job_id)
       THEN /\ pollers' = ClearInterval(p)
            /\ UNCHANGED <<mockJobs, jobCounter, jobs, activeJob, now, response>>
       ELSE \E r \in steps :
            LET i == FindIndex(mockJobs, p.job_id)
                stepped == [mockJobs[i] EXCEPT !.progress = Advanced(@, r)]
            IN  /\ IF Completes(stepped.progress)
                   THEN \E t \in Later(now) :
                            /\ now' = t
                            /\ mockJobs' = [mockJobs EXCEPT ![i] = Completed(stepped, t)]
                            /\ pollers' = ClearInterval(p)
                   ELSE /\ mockJobs' = [mockJobs EXCEPT ![i] = stepped]
                        /\ pollers' = Refired(p)
                        /\ UNCHANGED now
                /\ activeJob' = Copy(mockJobs'[i])
                /\ jobs' = MapJobs(jobs, mockJobs'[i])
                /\ UNCHANGED <<jobCounter, response>>
    /\ UNCHANGED clientVars

(* The cleanup timer of a pollJobStatus call: clearInterval after 30 s.  The  *)
(* timer is due together with the interval's 30th firing, in either order;    *)
(* when the interval has cleared itself before, the timer changes nothing.    *)
Cleanup(p) ==
    /\ BagIn(p, pollers)
    /\ p.ticks >= TicksInBudget - 1
    /\ pollers' = ClearInterval(p)
    /\ UNCHANGED <<mockJobs, jobCounter, jobs, activeJob, now, response>>
    /\ UNCHANGED clientVars

----------------------------------------------------------------------------
\* The job ids a caller may pass: those in the store, and one that is not.
CallIds == Ids \cup {UnknownId}

(* Spec: every handler and the interval, with random advances that complete   *)
(* a job within three firings.  No interval then lives until its cleanup      *)
(* timer, so the timer never finds an interval to clear.                      *)
Next ==
    \/ \E request \in DashboardRequests : createDockingJob(request, MaxJobs)
    \/ \E status \in Statuses \cup {""} : loadJobs(status)
    \/ \E id \in CallIds : cancelJob(id)
    \/ \E id \in CallIds : deleteJob(id)
    \/ \E id \in CallIds : getJobResults(id)
    \/ \E id \in CallIds : pollJobStatus(id, MaxPolls)
    \/ \E p \in BagToSet(pollers) : Tick(p, BriskSteps)

Spec == Init /\ [][Next]_vars

(* SpecTimeout: the same handlers with firings that may advance nothing, and  *)
(* the cleanup timer.                                                         *)
TickSlow == \E p \in BagToSet(pollers) : Tick(p, SlowSteps)
CleanupDue == \E p \in BagToSet(pollers) : Cleanup(p)

NextTimed ==
    \/ \E request \in DashboardRequests : createDockingJob(request, MaxTimedJobs)
    \/ \E status \in Statuses \cup {""} : loadJobs(status)
    \/ \E id \in CallIds : cancelJob(id)
    \/ \E id \in CallIds : deleteJob(id)
    \/ \E id \in CallIds : getJobResults(id)
    \/ \E id \in CallIds : pollJobStatus(id, MaxTimedPolls)
    \/ TickSlow
    \/ CleanupDue

SpecTimeout == Init /\ [][NextTimed]_vars

PollPending(maxPolls) ==
    \E id \in Ids : Job(id).status = "pending" /\ pollJobStatus(id, maxPolls)

(* The dashboard polls a job right after creating it (handleStartAnalysis),   *)
(* and the browser fires every timer that is due.                             *)
FairSpecTimeout ==
    /\ SpecTimeout
    /\ WF_vars(PollPending(MaxTimedPolls))
    /\ WF_vars(TickSlow)
    /\ WF_vars(CleanupDue)

(* SpecAdmit: submissions, each followed at some time by the pollJobStatus    *)
(* call of the dashboard, enough of them to exceed MAX_CONCURRENT_JOBS.       *)
NextAdmit ==
    \/ \E request \in DashboardRequests : createDockingJob(request, MaxAdmitJobs)
    \/ PollPending(MaxAdmitPolls)

SpecAdmit == Init /\ [][NextAdmit]_vars

(* Time that passes between two handler calls (every handler first awaits a   *)
(* simulated network delay).                                                  *)
Elapse(lastClock) ==
    /\ now < lastClock
    /\ now' = now + 1
    /\ UNCHANGED <<mockJobs, jobCounter, jobs, activeJob, pollers, response>>
    /\ UNCHANGED clientVars

(* SpecSubmit: submissions with any request a caller of the hook may pass,    *)
(* made at different times, listed, started and deleted.                      *)
NextSubmit ==
    \/ \E request \in Requests : createDockingJob(request, MaxSubmitJobs)
    \/ Elapse(MaxSubmitClock)
    \/ \E status \in Statuses \cup {""} : loadJobs(status)
    \/ \E id \in CallIds : deleteJob(id)
    \/ PollPending(MaxSubmitPolls)

SpecSubmit == Init /\ [][NextSubmit]_vars

(* SpecShared: one job with several pollJobStatus calls, whose intervals all  *)
(* advance it, and cancelJob.                                                 *)
NextShared ==
    \/ \E request \in DashboardRequests : createDockingJob(request, MaxSharedJobs)
    \/ \E status \in Statuses \cup {""} : loadJobs(status)
    \/ \E id \in Ids : cancelJob(id)
    \/ \E id \in Ids : pollJobStatus(id, MaxSharedPolls)
    \/ \E p \in BagToSet(pollers) : Tick(p, BriskSteps)

SpecShared == Init /\ [][NextShared]_vars

(* SpecRepoll: pollJobStatus called again and again on the Dashboard's job,   *)
(* at different times, with every interval firing and cancelJob in between.   *)
NextRepoll ==
    \/ \E request \in DashboardRequests : createDockingJob(request, MaxRepollJobs)
    \/ Elapse(MaxRepollClock)
    \/ \E id \in Ids : cancelJob(id)
    \/ \E id \in Ids : pollJobStatus(id, MaxRepollPolls)
    \/ \E p \in BagToSet(pollers) : Tick(p, BriskSteps)

SpecRepoll == Init /\ [][NextRepoll]_vars

(* SpecFrame: two jobs in the store, each cancelled, deleted, polled and      *)
(* advanced by its interval while the other is there.                         *)
TickOn(jobId) ==
    \E p \in BagToSet(pollers) : p.job_id = jobId /\ Tick(p, BriskSteps)

NextFrame ==
    \/ \E request \in DashboardRequests : createDockingJob(request, MaxFrameJobs)
    \/ \E id \in Ids : cancelJob(id)
    \/ \E id \in Ids : deleteJob(id)
    \/ \E id \in Ids : pollJobStatus(id, MaxFramePolls)
    \/ \E id \in Ids : TickOn(id)

SpecFrame == Init /\ [][NextFrame]_vars

----------------------------------------------------------------------------
(* The hooks over the API client (use-api, api.ts) and the Dashboard.  The    *)
(* job service behind the API is not part of the front end: it is modelled    *)
(* from its contract (records with a status, Submit, GetStatus, Delete, and   *)
(* the scheduler's status transitions).  Requests and responses travel        *)
(* independently: responses arrive in any order.                              *)

ServerId(n) == <<0, n>>         \* the id the service gave its n-th job

Exists(n) == n \in DOMAIN backend.status

\* The DockingJob a response carries for job n with the given status.
JobOf(n, status) ==
    [NullJob EXCEPT !.job_id = ServerId(n), !.status = status,
                    !.progress = IF status = "completed" THEN ProgressDone ELSE 0,
                    !.results = IF status = "completed" THEN CompletionResults ELSE <<>>,
                    !.error_message = IF status = "failed" THEN "failed" ELSE ""]

\* Dashboard, job completion effect: runs when activeJob was set.
\* An effect that takes every ended job for a completed one.
ShowsResultsWhenEnded(job) == job.status \in Terminal

ShowsResults(job) == job.status = "completed"

\* An execute() call in flight.  phase "request": the handler's own API call;
\* phase "refresh": the loadJobs() the handler awaits afterwards.  job: the
\* job the handler is about (0: none); active: the id of the activeJob the
\* handler's closure holds.
Call(op, phase, n, active) == [op |-> op, phase |-> phase, job |-> n, active |-> active]

\* execute(): setIsLoading(true), then the API call is awaited.
Begin(call) ==
    /\ calls' = calls (+) SetToBag({call})
    /\ isLoading' = TRUE

\* execute(), finally: setIsLoading(false).
Settle(call) ==
    /\ calls' = calls (-) SetToBag({call})
    /\ isLoading' = FALSE

UserMayCall == BagCardinality(calls) < MaxClientCalls

(* useDocking.loadJobs(): at mount, and as refreshJobs. *)
loadJobsOfApi ==
    /\ UserMayCall
    /\ Begin(Call("loadJobs", "refresh", 0, UnknownId))
    /\ UNCHANGED <<backend, loops, gets, currentStep, jobs, activeJob>>
    /\ UNCHANGED simulatedVars

(* Dashboard.handleStartAnalysis, up to its await. *)
handleStartAnalysis ==
    /\ currentStep = 1
    /\ backend.next <= MaxClientJobs
    /\ UserMayCall
    /\ currentStep' = 2
    /\ Begin(Call("createDockingJob", "request", 0, UnknownId))
    /\ UNCHANGED <<backend, loops, gets, jobs, activeJob>>
    /\ UNCHANGED simulatedVars

(* useDocking.deleteJob(jobId), up to its await. *)
deleteJobOfApi(n) ==
    /\ UserMayCall
    /\ Begin(Call("deleteJob", "request", n, activeJob.id))
    /\ UNCHANGED <<backend, loops, gets, currentStep, jobs, activeJob>>
    /\ UNCHANGED simulatedVars

(* Dashboard: the New Analysis button. *)
NewAnalysis ==
    /\ currentStep = 3
    /\ currentStep' = 1
    /\ UNCHANGED <<backend, calls, isLoading, loops, gets, jobs, activeJob>>
    /\ UNCHANGED simulatedVars

(* The job service runs its jobs. *)
BackendRuns(n) ==
    /\ Exists(n)
    /\ \E next \in Statuses :
          /\ \/ backend.status[n] = "pending" /\ next \in {"running", "cancelled"}
             \/ backend.status[n] = "running" /\ next \in Terminal
          /\ backend' = [backend EXCEPT !.status[n] = next]
    /\ UNCHANGED <<calls, isLoading, loops, gets, currentStep, jobs, activeJob>>
    /\ UNCHANGED simulatedVars

\* The handler goes on to its loadJobs(): the next execute() starts at once.
Refresh(call, n) ==
    /\ calls' = (calls (-) SetToBag({call}))
                    (+) SetToBag({Call(call.op, "refresh", n, call.active)})
    /\ isLoading' = TRUE

(* api.pollJobStatus(jobId, onUpdate): one call, its timer and its promise. *)
NewLoop(n) == [job |-> n, timer |-> FALSE, settled |-> "no", result |-> "none"]

\* this.getDockingJob(jobId), not yet answered.
Get(i) == [loop |-> i, answer |-> "none"]

\* A loop that goes on polling whatever status it fetched.
PollsAgainAlways(status) == TRUE

PollsAgain(status) == status \notin Terminal

\* resolve(job) / reject(error): a settled promise stays as it is.
Resolved(loop, status) ==
    IF loop.settled = "no"
    THEN [loop EXCEPT !.settled = "resolved", !.result = status]
    ELSE loop

\* A loop that polls again after a failed request.
RetriedAfterFailure(loop) == [loop EXCEPT !.timer = TRUE]

Rejected(loop) ==
    IF loop.settled = "no" THEN [loop EXCEPT !.settled = "rejected"] ELSE loop

(* The API call of an execute() settles: the service has handled the request  *)
(* (or the request failed) and execute() returns to the handler.              *)
RequestSettles(c) ==
    /\ BagIn(c, calls)
    /\ c.phase = "request"
    /\ \/ \* POST /docking/jobs/ accepted: setActiveJob(result), then loadJobs()
          /\ c.op = "createDockingJob"
          /\ LET n == backend.next IN
              /\ backend' = [next |-> n + 1, status |-> (n :> "pending") @@ backend.status]
              /\ activeJob' = Copy(JobOf(n, "pending"))
              /\ Refresh(c, n)
       \/ \* DELETE /docking/jobs/{id} accepted: loadJobs()
          /\ c.op = "deleteJob"
          /\ Exists(c.job)
          /\ backend.status[c.job] \in Terminal
          /\ backend' = [backend EXCEPT
                           !.status = [k \in DOMAIN backend.status \ {c.job} |->
                                           backend.status[k]]]
          /\ Refresh(c, c.job)
          /\ UNCHANGED activeJob
       \/ \* the request throws: execute() catches it and returns null
          /\ Settle(c)
          /\ UNCHANGED <<backend, activeJob>>
    /\ UNCHANGED <<loops, gets, currentStep, jobs>>
    /\ UNCHANGED simulatedVars

(* The loadJobs() a handler awaits settles (GET /docking/jobs/ answers an     *)
(* array, which has no .jobs: setJobs is not called), and the handler runs    *)
(* to its end.                                                                *)
RefreshSettles(c) ==
    /\ BagIn(c, calls)
    /\ c.phase = "refresh"
    /\ Settle(c)
    /\ IF c.op = "createDockingJob"
       THEN \* handleStartAnalysis: pollJobStatus(job.id)
            /\ loops' = Append(loops, NewLoop(c.job))
            /\ gets' = gets (+) SetToBag({Get(Len(loops) + 1)})
            /\ UNCHANGED activeJob
       ELSE /\ activeJob' =
                 IF c.op = "deleteJob" /\ c.active = ServerId(c.job)
                 THEN NoActiveJob
                 ELSE activeJob
            /\ UNCHANGED <<loops, gets>>
    /\ UNCHANGED <<backend, currentStep, jobs>>
    /\ UNCHANGED simulatedVars

(* The job service answers a status request (404 when it has no such job),   *)
(* or the request fails on its way.                                           *)
BackendAnswers(g) ==
    /\ BagIn(g, gets)
    /\ g.answer = "none"
    /\ \E answer \in Statuses \cup {"error"} :
          /\ LET n == loops[g.loop].job IN
                 \/ answer = "error"
                 \/ Exists(n) /\ answer = backend.status[n]
          /\ gets' = (gets (-) SetToBag({g})) (+) SetToBag({[g EXCEPT !.answer = answer]})
    /\ UNCHANGED <<backend, calls, isLoading, loops, currentStep, jobs, activeJob>>
    /\ UNCHANGED simulatedVars

(* poll(), after its await: the response of a status request is handled.      *)
PollResponse(g) ==
    /\ BagIn(g, gets)
    /\ g.answer # "none"
    /\ LET i == g.loop
           job == JobOf(loops[i].job, g.answer)
       IN  IF g.answer = "error"
           THEN /\ loops' = [loops EXCEPT ![i] = Rejected(@)]
                /\ gets' = gets (-) SetToBag({g})
                /\ UNCHANGED <<calls, isLoading, currentStep, jobs, activeJob>>
           ELSE \* onUpdate(job), and the effects that run on the new activeJob
                /\ activeJob' = Copy(job)
                /\ jobs' = MapJobs(jobs, job)
                /\ IF ShowsResults(job)
                   THEN /\ currentStep' = 3
                        /\ Begin(Call("getJobResults", "request", loops[i].job, UnknownId))
                   ELSE UNCHANGED <<currentStep, calls, isLoading>>
                /\ gets' = gets (-) SetToBag({g})
                /\ loops' = [loops EXCEPT ![i] =
                                IF PollsAgain(g.answer)
                                THEN [@ EXCEPT !.timer = TRUE]
                                ELSE Resolved(@, g.answer)]
    /\ UNCHANGED backend
    /\ UNCHANGED simulatedVars

(* setTimeout(poll, intervalMs) fires: the next status request. *)
PollTimer(i) ==
    /\ i \in DOMAIN loops
    /\ loops[i].timer
    /\ loops' = [loops EXCEPT ![i].timer = FALSE]
    /\ gets' = gets (+) SetToBag({Get(i)})
    /\ UNCHANGED <<backend, calls, isLoading, currentStep, jobs, activeJob>>
    /\ UNCHANGED simulatedVars

\* The jobs the service has given an id.
ServerJobs == 1..(backend.next - 1)

(* SpecClient: the Dashboard over the hooks of the API client. *)
NextClient ==
    \/ loadJobsOfApi
    \/ handleStartAnalysis
    \/ \E n \in ServerJobs : deleteJobOfApi(n)
    \/ NewAnalysis
    \/ \E n \in ServerJobs : BackendRuns(n)
    \/ \E c \in BagToSet(calls) : RequestSettles(c)
    \/ \E c \in BagToSet(calls) : RefreshSettles(c)
    \/ \E g \in BagToSet(gets) : BackendAnswers(g)
    \/ \E g \in BagToSet(gets) : PollResponse(g)
    \/ \E i \in DOMAIN loops : PollTimer(i)

SpecClient == Init /\ [][NextClient]_vars

----------------------------------------------------------------------------
(* Properties *)

\* The jobs that survive a step, as (before, after) pairs of the same id.
Kept == {id \in Ids : FoundIn(mockJobs', id)}
Before(id) == Job(id)
After(id) == JobIn(mockJobs', id)

InvalidState(r) == ~r.ok /\ r.error = "InvalidStateError"
NotFound(r) == ~r.ok /\ r.error = "NotFoundError"

\* C1: once a job's status is completed, failed or cancelled, no step of any
\* handler or timer changes it again.
C1_TerminalIsFinal ==
    [][\A id \in Kept :
          Before(id).status \in Terminal => After(id).status = Before(id).status]_vars

\* C2: at most MAX_CONCURRENT_JOBS jobs are running at any time; a further
\* job stays pending until a running one has ended.
RunningJobs == {i \in 1..Len(mockJobs) : mockJobs[i].status = "running"}

C2_AtMostNRunning == Cardinality(RunningJobs) <= MAX_CONCURRENT_JOBS

\* C3: every submitted job eventually leaves pending (for running or
\* cancelled), and every running job eventually is completed, failed or
\* cancelled.  (A job that is deleted meanwhile is no longer asked about.)
TimedIds == (1..MaxClock) \X (1..MaxTimedJobs)

HasStatus(id, statuses) == Found(id) /\ Job(id).status \in statuses

C3_EveryJobTerminates ==
    \A id \in TimedIds :
        /\ HasStatus(id, {"pending"}) ~> ~HasStatus(id, {"pending"})
        /\ HasStatus(id, {"running"}) ~> ~HasStatus(id, {"pending", "running"})

\* C4: when the cleanup timer of a job fires while the job is still running,
\* the job is moved to failed, with an error message.
C4_TimeoutFailsJob ==
    [][\A p \in BagToSet(pollers) :
          (Cleanup(p) /\ StillRunning(p.job_id)) =>
              /\ After(p.job_id).status = "failed"
              /\ After(p.job_id).error_message # ""]_vars

\* C5: a job enters the store pending; running is entered only from pending;
\* completed and failed are entered only from running; and what a reader of
\* activeJob or of the jobs list sees of one job never goes from pending
\* straight to completed or failed.
LegalEntry(a, b) ==
    /\ (b = "running" /\ a # b) => a = "pending"
    /\ (b \in {"completed", "failed"} /\ a # b) => a = "running"

StatusSeen(e, store) ==
    IF e.live /\ FoundIn(store, e.id) THEN JobIn(store, e.id).status ELSE e.copy.status

C5_StatusOrder ==
    [][/\ \A id \in Kept : LegalEntry(Before(id).status, After(id).status)
       /\ \A id \in Ids' \ Ids : After(id).status = "pending"
       /\ (activeJob.id # UnknownId /\ activeJob'.id = activeJob.id) =>
              LegalEntry(StatusSeen(activeJob, mockJobs), StatusSeen(activeJob', mockJobs'))
       /\ \A k \in DOMAIN jobs : \A m \in DOMAIN jobs' :
              jobs[k].id = jobs'[m].id =>
                  LegalEntry(StatusSeen(jobs[k], mockJobs), StatusSeen(jobs'[m], mockJobs'))
      ]_vars

C5_Witness ==
    \E i \in 1..Len(mockJobs) :
        /\ mockJobs[i].status = "completed"
        /\ mockJobs[i].started_at # NoTime
        /\ activeJob.id = mockJobs[i].job_id
        /\ StatusSeen(activeJob, mockJobs) = "completed"

\* C6: cancelJob on a pending job makes it cancelled at once, with started_at
\* not set; from then on it stays cancelled and unstarted, whatever
\* pollJobStatus calls and interval firings follow.
NeverStarted(job) == job.status = "cancelled" /\ job.started_at = NoTime

C6_CancelPendingNeverRuns ==
    [][/\ \A id \in Ids :
              (cancelJob(id) /\ Before(id).status = "pending") =>
                  (FoundIn(mockJobs', id) /\ NeverStarted(After(id)))
       /\ \A id \in Kept :
              (Before(id).status = "pending" /\ After(id).status = "cancelled") =>
                  NeverStarted(After(id))
       /\ \A id \in Kept : NeverStarted(Before(id)) => NeverStarted(After(id))
      ]_vars

\* A job cancelled while pending, for which pollJobStatus ran afterwards (a
\* call made while it was pending would have started it).
C6_Witness ==
    \E i \in 1..Len(mockJobs) :
        /\ NeverStarted(mockJobs[i])
        /\ \E p \in BagToSet(pollers) : p.job_id = mockJobs[i].job_id

\* C7: cancelJob on a job that is completed, failed or cancelled fails with
\* an InvalidStateError and changes no field of the record.
C7_CancelTerminalRejected ==
    [][\A id \in Ids :
          (cancelJob(id) /\ Before(id).status \in Terminal) =>
              (InvalidState(response') /\ mockJobs' = mockJobs)]_vars

\* C8: deleteJob on a running job fails with an InvalidStateError and the
\* record stays; on a terminal job it removes the record, and a later status
\* poll for an id that is not in the store finds no job: it starts nothing
\* and creates no interval.
C8_DeleteRules ==
    [][/\ \A id \in Ids :
              (deleteJob(id) /\ Before(id).status = "running") =>
                  (InvalidState(response') /\ mockJobs' = mockJobs)
       /\ \A id \in Ids :
              (deleteJob(id) /\ Before(id).status \in Terminal) =>
                  ~FoundIn(mockJobs', id)
       /\ \A id \in CallIds :
              (pollJobStatus(id, MaxPolls) /\ ~Found(id)) =>
                  (mockJobs' = mockJobs /\ pollers' = pollers)
      ]_vars

\* C9: deleteJob on a pending job fails with an InvalidStateError and the
\* record stays in the store.
C9_DeletePendingRejected ==
    [][\A id \in Ids :
          (deleteJob(id) /\ Before(id).status = "pending") =>
              (InvalidState(response') /\ mockJobs' = mockJobs)]_vars

\* C10: getJobResults answers by the job's status: the recorded results when
\* completed, not ready when pending or running, job failed (with the error
\* message) when failed, not found when cancelled, deleted or unknown.
ResultsExpected(id, r) ==
    IF ~Found(id) \/ Job(id).status = "cancelled" THEN NotFound(r)
    ELSE IF Job(id).status = "completed"
         THEN r.ok /\ r.error = "" /\ r.results = Job(id).results
    ELSE IF Job(id).status = "failed"
         THEN ~r.ok /\ r.error = "JobFailedError"
    ELSE ~r.ok /\ r.error = "NotReadyError"

C10_GetResultsByStatus ==
    [][\A id \in CallIds : getJobResults(id) => ResultsExpected(id, response')]_vars

\* C11: createDockingJob with parameters that are structurally invalid
\* (exhaustiveness < 1 or num_modes < 1) fails with a ValidationError and adds
\* no record: the store, and what loadJobs lists for any filter, stay as
\* they were.
ValidParameters(parameters) ==
    parameters.exhaustiveness >= 1 /\ parameters.num_modes >= 1

ValidationFailed(r) == ~r.ok /\ r.error = "ValidationError"

C11_InvalidSubmitRejected ==
    [][\A request \in Requests :
          (createDockingJob(request, MaxSubmitJobs)
              /\ ~ValidParameters(request.parameters)) =>
              /\ ValidationFailed(response')
              /\ mockJobs' = mockJobs
              /\ \A status \in Statuses \cup {""} :
                     LoadedJobs(mockJobs', status) = LoadedJobs(mockJobs, status)]_vars

\* C12: for every job in the store, results is non-empty only when the
\* status is completed, error_message is non-empty only when the status is
\* failed, and the two are never both non-empty.
C12_ResultsOrError ==
    \A i \in 1..Len(mockJobs) :
        /\ mockJobs[i].results # <<>> => mockJobs[i].status = "completed"
        /\ mockJobs[i].error_message # "" => mockJobs[i].status = "failed"
        /\ ~(mockJobs[i].results # <<>> /\ mockJobs[i].error_message # "")

\* C13: every job whose status is completed has progress 100, in the store
\* and in what activeJob and the jobs list show.
DoneMeansFull(job) == job.status = "completed" => job.progress = ProgressDone

C13_CompletedIsFull ==
    /\ \A i \in 1..Len(mockJobs) : DoneMeansFull(mockJobs[i])
    /\ DoneMeansFull(View(activeJob))
    /\ \A k \in DOMAIN jobs : DoneMeansFull(View(jobs[k]))

C13_Witness ==
    /\ \E i \in 1..Len(mockJobs) :
          mockJobs[i].status = "completed" /\ mockJobs[i].progress = ProgressDone
    /\ \E k \in DOMAIN jobs :
          ~jobs[k].live /\ View(jobs[k]).status = "completed"

\* C14: the progress of a job stays within [0, 100] and no step lowers it,
\* in the store and in what activeJob and the jobs list show of the job,
\* whatever interval firings of several pollJobStatus calls on the job,
\* cancelJob calls and the completion do.
ProgressSeen(e, store) ==
    IF e.live /\ FoundIn(store, e.id) THEN JobIn(store, e.id).progress
    ELSE e.copy.progress

InRange(progress) == 0 <= progress /\ progress <= ProgressDone

C14_ProgressMonotone ==
    [][/\ \A id \in Kept :
              InRange(After(id).progress) /\ After(id).progress >= Before(id).progress
       /\ (activeJob.id # UnknownId /\ activeJob'.id = activeJob.id) =>
              /\ InRange(ProgressSeen(activeJob', mockJobs'))
              /\ ProgressSeen(activeJob', mockJobs') >= ProgressSeen(activeJob, mockJobs)
       /\ \A k \in DOMAIN jobs : \A m \in DOMAIN jobs' :
              jobs[k].id = jobs'[m].id =>
                  /\ InRange(ProgressSeen(jobs'[m], mockJobs'))
                  /\ ProgressSeen(jobs'[m], mockJobs') >= ProgressSeen(jobs[k], mockJobs)
      ]_vars

\* The number of live intervals of a job.
IntervalsOn(jobId) ==
    BagCardinality([p \in {q \in BagToSet(pollers) : q.job_id = jobId} |-> pollers[p]])

\* Two intervals alive on one running job that has advanced.
C14_Witness ==
    \E i \in 1..Len(mockJobs) :
        /\ IntervalsOn(mockJobs[i].job_id) >= 2
        /\ mockJobs[i].status = "running"
        /\ mockJobs[i].progress > 0

\* C15: started_at is set when, and only when, a job goes from pending to
\* running; completed_at is set when a job that ran becomes completed, failed
\* or cancelled, and changes only when a job becomes terminal; neither is
\* written twice.  So every terminal job that ran has completed_at set, and a
\* pending job (a new one included) has neither.
Ran(job) == job.started_at # NoTime

C15_TimestampsSetOnce ==
    [][/\ \A id \in Kept :
              LET a == Before(id)
                  b == After(id)
              IN  /\ (a.status = "pending" /\ b.status = "running") => Ran(b)
                  /\ b.started_at # a.started_at =>
                         (a.status = "pending" /\ b.status = "running" /\ ~Ran(a))
                  /\ (a.status = "running" /\ b.status \in Terminal) =>
                         b.completed_at # NoTime
                  /\ b.completed_at # a.completed_at =>
                         (a.status \notin Terminal /\ b.status \in Terminal
                             /\ a.completed_at = NoTime)
                  /\ (b.status \in Terminal /\ Ran(b)) => b.completed_at # NoTime
                  /\ b.status = "pending" => (~Ran(b) /\ b.completed_at = NoTime)
       /\ \A id \in Ids' \ Ids :
              ~Ran(After(id)) /\ After(id).completed_at = NoTime
      ]_vars

\* C16: no two jobs in the store have the same id, and an id is never given
\* twice: every new id carries the value of jobCounter, which is above the
\* counter of every id in the store, grows with each submission and never
\* goes back, also when jobs are deleted in between.
IdCounter(jobId) == jobId[2]

C16_IdsUnique ==
    /\ [](\A i, k \in 1..Len(mockJobs) :
             /\ i # k => mockJobs[i].job_id # mockJobs[k].job_id
             /\ IdCounter(mockJobs[i].job_id) < jobCounter)
    /\ [][/\ jobCounter' >= jobCounter
          /\ \A id \in Ids' \ Ids :
                 IdCounter(id) = jobCounter /\ jobCounter' = jobCounter + 1]_vars

\* A second submission made after the first job was deleted.
C16_Witness ==
    /\ response.op = "createDockingJob"
    /\ jobCounter = 3
    /\ Len(mockJobs) = 1

\* C17: a submission appends exactly one record, which is pending with
\* progress 0, created_at set, and no started_at, completed_at, results or
\* error_message; it changes no other record and creates no interval.
Fresh(job) ==
    /\ job.status = "pending"
    /\ job.progress = 0
    /\ job.created_at # NoTime
    /\ job.started_at = NoTime
    /\ job.completed_at = NoTime
    /\ job.results = <<>>
    /\ job.error_message = ""

C17_SubmitInsertsPending ==
    [][\A request \in Requests :
          createDockingJob(request, MaxSubmitJobs) =>
              /\ Len(mockJobs') = Len(mockJobs) + 1
              /\ SubSeq(mockJobs', 1, Len(mockJobs)) = mockJobs
              /\ Fresh(mockJobs'[Len(mockJobs')])
              /\ pollers' = pollers]_vars

\* A submission made while an earlier job is running.
C17_Witness ==
    /\ response.op = "createDockingJob"
    /\ Len(mockJobs) = 2
    /\ mockJobs[1].status = "running"
    /\ Fresh(mockJobs[2])

\* C18: loadJobs(status) puts in `jobs` exactly the jobs of the store whose
\* status is the filter (all of them with no filter), each once and as the
\* store has it at the call, ordered by created_at descending.
Matching(store, status) ==
    {i \in 1..Len(store) : status = "" \/ store[i].status = status}

\* What entry e of a list shows when the store is `store`.
ShownIn(e, store) == IF e.live /\ FoundIn(store, e.id) THEN JobIn(store, e.id) ELSE e.copy

Listed(list, store, status) ==
    /\ Len(list) = Cardinality(Matching(store, status))
    /\ \A i \in Matching(store, status) :
           \E k \in DOMAIN list : ShownIn(list[k], store) = store[i]
    /\ \A k, m \in DOMAIN list :
           k < m => ShownIn(list[k], store).created_at >= ShownIn(list[m], store).created_at

C18_ListFilteredNewestFirst ==
    [][\A status \in Statuses \cup {""} :
          loadJobs(status) => Listed(jobs', mockJobs, status)]_vars

\* C19: a pending job becomes running only when no job submitted before it
\* (earlier in the store) is still pending.
C19_AdmissionIsFifo ==
    [][\A i \in 1..Len(mockJobs) :
          (/\ mockJobs[i].status = "pending"
           /\ FoundIn(mockJobs', mockJobs[i].job_id)
           /\ After(mockJobs[i].job_id).status = "running") =>
              \A k \in 1..(i - 1) : mockJobs[k].status # "pending"]_vars

\* C20: cancelJob on a running job makes it cancelled (at once, so also
\* eventually), and from then on its progress, status, results and
\* completed_at change no more, whatever interval firings follow.
C20_CancelRunningStops ==
    [][/\ \A id \in Ids :
              (cancelJob(id) /\ Before(id).status = "running") =>
                  (FoundIn(mockJobs', id) /\ After(id).status = "cancelled")
       /\ \A id \in Kept :
              Before(id).status = "cancelled" =>
                  /\ After(id).status = "cancelled"
                  /\ After(id).progress = Before(id).progress
                  /\ After(id).results = Before(id).results
                  /\ After(id).completed_at = Before(id).completed_at
      ]_vars

\* A job cancelled while running, part of the way, whose interval has fired
\* since and has cleared itself.
C20_Witness ==
    \E i \in 1..Len(mockJobs) :
        /\ mockJobs[i].status = "cancelled"
        /\ Ran(mockJobs[i])
        /\ mockJobs[i].progress > 0
        /\ mockJobs[i].progress < CompleteAt
        /\ IntervalsOn(mockJobs[i].job_id) = 0

\* C22: a job's progress changes only in a step that finds the job running:
\* a job enters the store with progress 0 and has progress 0 as long as it is
\* pending, and the progress of a cancelled, failed or completed job stays as
\* it is, whatever intervals still fire on the job.
C22_ProgressOnlyWhileRunning ==
    [][/\ \A id \in Kept :
              /\ After(id).progress # Before(id).progress =>
                     Before(id).status = "running"
              /\ After(id).status = "pending" => After(id).progress = 0
       /\ \A id \in Ids' \ Ids : After(id).progress = 0
      ]_vars

\* A job that has ended part of the way or in full, with an interval that has
\* fired before and is still to fire on it.
C22_Witness ==
    \E p \in BagToSet(pollers) :
        /\ p.ticks >= 1
        /\ Found(p.job_id)
        /\ Job(p.job_id).status \in Terminal
        /\ Job(p.job_id).progress > 0

\* C24: with several pollJobStatus calls on one job, each with its interval,
\* the job is started at most once and completed at most once: started_at,
\* completed_at and results are each written once, never again, and a
\* completed job carries all three.
C24_StartedAndCompletedOnce ==
    [][\A id \in Kept :
          LET a == Before(id)
              b == After(id)
          IN  /\ (b.status = "running" /\ a.status # "running") =>
                     (a.status = "pending" /\ ~Ran(a))
              /\ b.started_at # a.started_at => (~Ran(a) /\ b.status = "running")
              /\ (b.status = "completed" /\ a.status # "completed") =>
                     (a.status = "running" /\ a.completed_at = NoTime
                         /\ a.results = <<>>)
              /\ b.completed_at # a.completed_at =>
                     (a.completed_at = NoTime /\ b.status = "completed")
              /\ b.results # a.results => (a.results = <<>> /\ b.status = "completed")
              /\ b.status = "completed" =>
                     (Ran(b) /\ b.completed_at # NoTime /\ b.results # <<>>)
      ]_vars

\* A job started by one call and polled again at a later time, completed by
\* one interval while the interval of the other call is still to fire.
C24_Witness ==
    \E p \in BagToSet(pollers) :
        /\ Found(p.job_id)
        /\ Job(p.job_id).status = "completed"
        /\ Job(p.job_id).started_at < now
        /\ Job(p.job_id).completed_at = now

\* C25: once the job activeJob stands for has ended (completed by an interval,
\* or cancelled through cancelJob), activeJob eventually shows the status the
\* job ended with, as long as the job is in the store, keeps that status and
\* is the active one.
ActiveShows(id, status) ==
    activeJob.id = id => View(activeJob).status = status

C25_ActiveJobCatchesUp ==
    \A id \in TimedIds : \A status \in Terminal :
        (HasStatus(id, {status}) /\ activeJob.id = id)
            ~> (~HasStatus(id, {status}) \/ ActiveShows(id, status))

\* C30: cancelJob(id), deleteJob(id), pollJobStatus(id) and the firings of the
\* intervals of id leave every other job in the store, with every field of
\* its record as it was, and bring no job into the store.
ActsOn(id) ==
    \/ cancelJob(id)
    \/ deleteJob(id)
    \/ pollJobStatus(id, MaxFramePolls)
    \/ TickOn(id)

C30_OtherJobsUntouched ==
    [][\A id \in Ids :
          ActsOn(id) =>
              /\ \A other \in Ids \ {id} :
                     FoundIn(mockJobs', other) /\ After(other) = Before(other)
              /\ Ids' \subseteq Ids
      ]_vars

\* Two jobs side by side: one cancelled part of the way, after the other was
\* completed by its own interval.
C30_Witness ==
    \E i, j \in 1..Len(mockJobs) :
        /\ mockJobs[i].status = "cancelled"
        /\ mockJobs[i].progress > 0
        /\ mockJobs[j].status = "completed"

\* The status requests of loop i that are in flight in `bag`.
GetsIn(bag, i) ==
    BagCardinality([g \in {h \in BagToSet(bag) : h.loop = i} |-> bag[g]])

\* The getJobResults calls in flight in `bag`.
ResultsAsked(bag) ==
    BagCardinality([c \in {d \in BagToSet(bag) : d.op = "getJobResults"} |-> bag[c]])

\* C21: an api.pollJobStatus call that fetched a status that is not terminal
\* schedules its next request and stays unsettled; when it fetched completed,
\* failed or cancelled it resolves with that job and schedules nothing; a
\* settled call changes no more and sends no request; and the Dashboard
\* calls getJobResults only in a step that shows it activeJob completed.
C21_PollUntilTerminal ==
    [][/\ \A i \in DOMAIN loops :
              loops[i].settled # "no" =>
                  (loops'[i] = loops[i] /\ GetsIn(gets', i) <= GetsIn(gets, i))
       /\ \A g \in BagToSet(gets) :
              (PollResponse(g) /\ g.answer # "error") =>
                  IF g.answer \in Terminal
                  THEN /\ loops'[g.loop].settled = "resolved"
                       /\ loops'[g.loop].result = g.answer
                       /\ ~loops'[g.loop].timer
                       /\ GetsIn(gets', g.loop) = 0
                  ELSE /\ loops'[g.loop].settled = "no"
                       /\ loops'[g.loop].timer
       /\ ResultsAsked(calls') > ResultsAsked(calls) =>
              (activeJob' # activeJob /\ activeJob'.copy.status = "completed")
      ]_vars

\* A call that polled again after a status that was not terminal, and has
\* resolved with completed, with the results asked for.
C21_Witness ==
    \E i \in DOMAIN loops :
        /\ loops[i].settled = "resolved"
        /\ loops[i].result = "completed"
        /\ ResultsAsked(calls) = 1
        /\ currentStep = 3

\* C23: when the createDockingJob call of handleStartAnalysis fails,
\* currentStep goes back to 1.
C23_FailedStartReturnsToStepOne ==
    [][\A c \in BagToSet(calls) :
          (RequestSettles(c) /\ c.op = "createDockingJob" /\ backend' = backend) =>
              currentStep' = 1]_vars

\* C26: when deleteJob for the active job has run to its end, activeJob is
\* null; and a null activeJob is next set only to a job the service has (a
\* newly created one), never to one that was deleted, whatever status
\* responses were outstanding.
C26_DeletedJobStaysInactive ==
    [][/\ \A c \in BagToSet(calls) :
              (RefreshSettles(c) /\ c.op = "deleteJob" /\ c.active = ServerId(c.job)) =>
                  activeJob' = NoActiveJob
       /\ (activeJob = NoActiveJob /\ activeJob' # NoActiveJob) =>
              \E n \in DOMAIN backend'.status : activeJob'.id = ServerId(n)
      ]_vars

\* C27: isLoading is true exactly when some execute() call has not settled.
C27_LoadingWhileInFlight == isLoading <=> (calls # EmptyBag)

\* C28: when a status request of an api.pollJobStatus call fails, the call
\* rejects, schedules no further request and onUpdate is not invoked; a call
\* never has two requests (or a request and a timer) outstanding; and each
\* successful response is passed to onUpdate when it is handled, which puts
\* that job in activeJob.
C28_PollFailureRejects ==
    /\ [](\A i \in DOMAIN loops :
             GetsIn(gets, i) + (IF loops[i].timer THEN 1 ELSE 0) <= 1)
    /\ [][\A g \in BagToSet(gets) :
             PollResponse(g) =>
                 IF g.answer = "error"
                 THEN /\ loops'[g.loop].settled = "rejected"
                      /\ ~loops'[g.loop].timer
                      /\ GetsIn(gets', g.loop) = 0
                      /\ activeJob' = activeJob
                 ELSE activeJob' = Copy(JobOf(loops[g.loop].job, g.answer))]_vars

\* A call that handled a response for the running job and then a failure.
C28_Witness ==
    \E i \in DOMAIN loops :
        /\ loops[i].settled = "rejected"
        /\ activeJob.id = ServerId(loops[i].job)
        /\ activeJob.copy.status = "running"

\* C29: currentStep is 1, 2 or 3; it becomes 3 only in a step that sets
\* activeJob to a completed job; and it is never 3 while activeJob is a
\* failed or cancelled job.
C29_StepThreeOnlyWhenCompleted ==
    /\ [](/\ currentStep \in {1, 2, 3}
          /\ ~(currentStep = 3 /\ View(activeJob).status \in {"failed", "cancelled"}))
    /\ [][(currentStep' = 3 /\ currentStep # 3) =>
             (activeJob' # activeJob /\ activeJob'.copy.status = "completed")]_vars

\* The Dashboard at step 2 with an active job that has failed, its polling
\* ended.
C29_Witness ==
    /\ currentStep = 2
    /\ View(activeJob).status = "failed"
    /\ \E i \in DOMAIN loops : loops[i].settled = "resolved" /\ loops[i].result = "failed"

====
